---------------------------- MODULE Spec2Model ----------------------------
(***************************************************************************)
(* A model of generate_playlists.py: the fetcher (fetch_url), the EXTINF   *)
(* renderer (format_extinf), the file writer (write_m3u_file), the six     *)
(* service drivers and the main loop that calls them in sequence.          *)
(*                                                                         *)
(* Representation of Python values:                                        *)
(*   str          a sequence of one-character strings                      *)
(*   None (str)   the value None below                                     *)
(*   dict read    a function whose domain is the set of keys present       *)
(*   with .get()                                                           *)
(*   dict that is a sequence of <<key, value>> pairs in insertion order    *)
(*   iterated                                                              *)
(*   a JSON       its decimal rendering (int(5) = int("5") and             *)
(*   number       str(5) = str("5"), the only uses the program makes)      *)
(***************************************************************************)
EXTENDS Integers, Sequences, FiniteSets, TLC

VARIABLES
  pc,         \* position of the main loop: index into services, Len+1 when done
  services,   \* the list of services the main loop runs
  regions,    \* the regions argument handed to the region drivers
  sort,       \* the sort argument handed to the drivers
  net,        \* per URL, the outcomes of the successive HTTP GETs to it
  gets,       \* per URL, the number of GETs issued so far
  dirExists,  \* whether OUTPUT_DIR exists
  files,      \* the content of OUTPUT_DIR: file name -> content
  written,    \* names of the files written by this run
  invoked,    \* the drivers called so far, in call order
  raised,     \* the drivers whose exception the main loop caught
  uuidCount,  \* number of uuid.uuid4() calls made so far
  call,       \* a direct call of a helper: its name and arguments
  ret         \* the value that call returned

vars == <<pc, services, regions, sort, net, gets, dirExists, files, written,
          invoked, raised, uuidCount, call, ret>>

---------------------------------------------------------------------------
(* Characters and strings *)

DQ == "\""

\* The characters the model orders, in code point order.
CharOrder ==
  << " ", DQ, "'", ",", "-", "0", "1", "2", "3", "4", "5", "6", "7", "8",
     "9", "A", "B", "C", "D", "E", "F", "G", "H", "I", "J", "K", "L", "M",
     "N", "O", "P", "Q", "R", "S", "T", "U", "V", "W", "X", "Y", "Z", "a",
     "b", "c", "d", "e", "f", "g", "h", "i", "j", "k", "l", "m", "n", "o",
     "p", "q", "r", "s", "t", "u", "v", "w", "x", "y", "z" >>

Digits == {"0", "1", "2", "3", "4", "5", "6", "7", "8", "9"}

UpperChars == {CharOrder[i] : i \in 16..41}

LowerChars == {CharOrder[i] : i \in 42..67}

Ord(c) == CHOOSE i \in 1..Len(CharOrder) : CharOrder[i] = c

lowerChar(c) == IF c \in UpperChars THEN CharOrder[Ord(c) + 26] ELSE c

upperChar(c) == IF c \in LowerChars THEN CharOrder[Ord(c) - 26] ELSE c

\* The elements of a sequence
Range(seq) == {seq[i] : i \in 1..Len(seq)}

\* str.lower() and str.upper()
lower(s) == [i \in 1..Len(s) |-> lowerChar(s[i])]

upper(s) == [i \in 1..Len(s) |-> upperChar(s[i])]

\* str.replace(old, new) for one-character old and new
replace(s, old, new) == [i \in 1..Len(s) |-> IF s[i] = old THEN new ELSE s[i]]

\* str.replace(old, '') for a one-character old
remove(s, old) == SelectSeq(s, LAMBDA c : c # old)

\* str.isdigit()
isdigit(s) == Len(s) > 0 /\ \A i \in 1..Len(s) : s[i] \in Digits

\* Python's < on str: lexicographic by code point
RECURSIVE StrLess(_, _)
StrLess(a, b) ==
  IF Len(b) = 0 THEN FALSE
  ELSE IF Len(a) = 0 THEN TRUE
  ELSE IF a[1] = b[1] THEN StrLess(Tail(a), Tail(b))
  ELSE Ord(a[1]) < Ord(b[1])

\* The None object where a str is expected (dict.get of an absent key).
None == <<"None-object">>

NoneText == <<"N","o","n","e">>

\* str(x), also what an f-string does to x
str(x) == IF x = None THEN NoneText ELSE x

\* int(x) raises ValueError unless x is an optionally signed run of digits.
IntRaises(x) ==
  ~(isdigit(x) \/ (Len(x) > 1 /\ x[1] = "-" /\ isdigit(Tail(x))))

RECURSIVE DigitsValue(_)
DigitsValue(s) ==
  IF Len(s) = 0 THEN 0
  ELSE 10 * DigitsValue(SubSeq(s, 1, Len(s) - 1)) + (Ord(s[Len(s)]) - 6)

int(x) == IF x[1] = "-" THEN 0 - DigitsValue(Tail(x)) ELSE DigitsValue(x)

---------------------------------------------------------------------------
(* Dictionaries *)

\* d.get(k, default) on a dict read by key
Get(d, k, default) == IF k \in DOMAIN d THEN d[k] ELSE default

\* On a dict kept in insertion order: k in d, d[k], d[k] = v, list(d.keys())
Has(d, k) == \E i \in 1..Len(d) : d[i][1] = k

At(d, k) == d[CHOOSE i \in 1..Len(d) : d[i][1] = k][2]

Put(d, k, v) ==
  IF Has(d, k)
  THEN [i \in 1..Len(d) |-> IF d[i][1] = k THEN <<k, v>> ELSE d[i]]
  ELSE Append(d, <<k, v>>)

Keys(d) == [i \in 1..Len(d) |-> d[i][1]]

\* {**info, **overrides}
Merge(info, overrides) ==
  [k \in DOMAIN info \cup DOMAIN overrides |->
     IF k \in DOMAIN overrides THEN overrides[k] ELSE info[k]]

---------------------------------------------------------------------------
(* Literals of the program *)

OUTPUT_DIR == "playlists"

UnknownChannel == <<"U","n","k","n","o","w","n"," ","C","h","a","n","n","e","l">>

Uncategorized == <<"U","n","c","a","t","e","g","o","r","i","z","e","d">>

Sentinel == 99999

pluto_region_name_map ==
  << << <<"a","r">>, <<"A","r","g","e","n","t","i","n","a">> >>,
     << <<"b","r">>, <<"B","r","a","z","i","l">> >>,
     << <<"c","a">>, <<"C","a","n","a","d","a">> >>,
     << <<"c","l">>, <<"C","h","i","l","e">> >>,
     << <<"c","o">>, <<"C","o","l","o","m","b","i","a">> >>,
     << <<"c","r">>, <<"C","o","s","t","a"," ","R","i","c","a">> >>,
     << <<"d","e">>, <<"G","e","r","m","a","n","y">> >>,
     << <<"d","k">>, <<"D","e","n","m","a","r","k">> >>,
     << <<"d","o">>, <<"D","o","m","i","n","i","c","a","n"," ","R","e","p","u","b","l","i","c">> >>,
     << <<"e","c">>, <<"E","c","u","a","d","o","r">> >>,
     << <<"e","s">>, <<"S","p","a","i","n">> >>,
     << <<"f","r">>, <<"F","r","a","n","c","e">> >>,
     << <<"g","b">>, <<"U","n","i","t","e","d"," ","K","i","n","g","d","o","m">> >>,
     << <<"g","t">>, <<"G","u","a","t","e","m","a","l","a">> >>,
     << <<"i","t">>, <<"I","t","a","l","y">> >>,
     << <<"m","x">>, <<"M","e","x","i","c","o">> >>,
     << <<"n","o">>, <<"N","o","r","w","a","y">> >>,
     << <<"p","e">>, <<"P","e","r","u">> >>,
     << <<"s","e">>, <<"S","w","e","d","e","n">> >>,
     << <<"u","s">>, <<"U","n","i","t","e","d"," ","S","t","a","t","e","s">> >>,
     << <<"l","a","t","a","m">>, <<"L","a","t","i","n"," ","A","m","e","r","i","c","a">> >> >>

plex_region_name_map ==
  << << <<"u","s">>, <<"U","n","i","t","e","d"," ","S","t","a","t","e","s">> >>,
     << <<"m","x">>, <<"M","e","x","i","c","o">> >>,
     << <<"e","s">>, <<"S","p","a","i","n">> >>,
     << <<"c","a">>, <<"C","a","n","a","d","a">> >>,
     << <<"a","u">>, <<"A","u","s","t","r","a","l","i","a">> >>,
     << <<"n","z">>, <<"N","e","w"," ","Z","e","a","l","a","n","d">> >>,
     << <<"b","r">>, <<"B","r","a","z","i","l">> >>,
     << <<"g","b">>, <<"U","n","i","t","e","d"," ","K","i","n","g","d","o","m">> >>,
     << <<"d","e">>, <<"G","e","r","m","a","n","y">> >>,
     << <<"c","h">>, <<"S","w","i","t","z","e","r","l","a","n","d">> >>,
     << <<"i","t">>, <<"I","t","a","l","y">> >>,
     << <<"f","r">>, <<"F","r","a","n","c","e">> >>,
     << <<"a","t">>, <<"A","u","s","t","r","i","a">> >>,
     << <<"i","e">>, <<"I","r","e","l","a","n","d">> >>,
     << <<"z","a">>, <<"S","o","u","t","h"," ","A","f","r","i","c","a">> >> >>


---------------------------------------------------------------------------
(* fetch_url *)

\* What fetch_url returns: the error sentinel None, or a value.
FetchFailed == [ok |-> FALSE]

Fetched(v) == [ok |-> TRUE, val |-> v]

\* One call of fetch_url, given the outcome r of the single requests.get it
\* issues.  r.status is "200", an HTTP error status, or "unreachable" (the
\* request raised); r.enc says whether the body is gzip, plain UTF-8 text or
\* neither; r.json whether the text parses as JSON, to r.doc.
fetch_url(r, is_json, is_gzipped, stream) ==
  IF r.status # "200" THEN FetchFailed
  ELSE IF stream THEN Fetched(r)
  ELSE IF is_gzipped /\ r.enc = "corrupt" THEN FetchFailed
  ELSE IF ~is_gzipped /\ r.enc # "plain" THEN FetchFailed
  ELSE IF is_json THEN (IF r.json THEN Fetched(r.doc) ELSE FetchFailed)
  ELSE Fetched(r.text)

\* The outcome of the next GET to url: the responses of net[url] in turn, the
\* last one repeated.
NextResponse(url) ==
  net[url][IF gets[url] < Len(net[url]) THEN gets[url] + 1 ELSE Len(net[url])]

\* `not data` for what fetch_url returned when a dict is expected
Falsy(res) == ~res.ok \/ DOMAIN res.val = {}

---------------------------------------------------------------------------
(* write_m3u_file *)

write_m3u_file(fs, filename, content) ==
  [n \in DOMAIN fs \cup {filename} |-> IF n = filename THEN content ELSE fs[n]]

\* The directory after a sequence of write_m3u_file calls.
RECURSIVE WriteAll(_, _)
WriteAll(fs, writes) ==
  IF Len(writes) = 0 THEN fs
  ELSE WriteAll(write_m3u_file(fs, writes[1][1], writes[1][2]), Tail(writes))

---------------------------------------------------------------------------
(* format_extinf *)

\* The #EXTINF line, as the values of its attributes and its display name;
\* raised when a str method is called on None.
format_extinf(channel_id, tvg_id, tvg_chno, tvg_name, tvg_logo, group_title, display_name) ==
  IF tvg_name = None \/ group_title = None \/ display_name = None
  THEN [raised |-> TRUE]
  ELSE [raised       |-> FALSE,
        channel_id   |-> str(channel_id),
        tvg_id       |-> str(tvg_id),
        tvg_chno     |-> IF tvg_chno # None /\ isdigit(str(tvg_chno))
                         THEN str(tvg_chno) ELSE <<>>,
        tvg_name     |-> replace(tvg_name, DQ, "'"),
        tvg_logo     |-> str(tvg_logo),
        group_title  |-> replace(group_title, DQ, "'"),
        display_name |-> remove(display_name, ",")]

---------------------------------------------------------------------------
(* sorted *)

\* A sort key is a pair <<number, string>>, compared as Python compares
\* tuples; a key that is a number alone has the empty string, one that is a
\* string alone the number 0.
KeyLess(a, b) == a[1] < b[1] \/ (a[1] = b[1] /\ StrLess(a[2], b[2]))

\* sorted(seq, key=...): a stable sort, key[x] being the key of item x.
sorted(seq, key) ==
  LET n == Len(seq)
      Before(j, i) ==
        \/ KeyLess(key[seq[j]], key[seq[i]])
        \/ (~KeyLess(key[seq[i]], key[seq[j]]) /\ j < i)
      Rank(i) == 1 + Cardinality({j \in 1..n : Before(j, i)})
  IN  [p \in 1..n |-> seq[CHOOSE i \in 1..n : Rank(i) = p]]

---------------------------------------------------------------------------
(* Parts the region drivers share, line for line *)

all_ == <<"a","l","l">>

\* The file name f"{prefix}_{region}.m3u"
FileName(prefix, region) == prefix \o <<"_">> \o region \o <<".","m","3","u">>

\* map.get(region_key, region_key.upper())
RegionName(map, region_key) ==
  IF Has(map, region_key) THEN At(map, region_key) ELSE upper(region_key)

\* FanOut with the channel's own key as the key in channels_to_process.
RECURSIVE FanOutBareKey(_, _, _, _)
FanOutBareKey(acc, chans, region_key, region_full_name) ==
  IF Len(chans) = 0 THEN acc
  ELSE LET channel_key == chans[1][1]
           channel_info == chans[1][2]
       IN  FanOutBareKey(Put(acc, channel_key,
                             Merge(channel_info,
                                   [region_code          |-> region_key,
                                    group_title_override |-> region_full_name,
                                    original_id          |-> channel_key])),
                         Tail(chans), region_key, region_full_name)

\* The inner loop of the "all" branch: every channel of one region goes into
\* channels_to_process under the key f"{channel_key}-{region_key}".
RECURSIVE FanOut(_, _, _, _)
FanOut(acc, chans, region_key, region_full_name) ==
  IF Len(chans) = 0 THEN acc
  ELSE LET channel_key == chans[1][1]
           channel_info == chans[1][2]
           unique_channel_id == channel_key \o <<"-">> \o region_key
       IN  FanOut(Put(acc, unique_channel_id,
                      Merge(channel_info,
                            [region_code          |-> region_key,
                             group_title_override |-> region_full_name,
                             original_id          |-> channel_key])),
                  Tail(chans), region_key, region_full_name)

\* The loop of the single-region branch: every channel of the region goes
\* into channels_to_process under its own key.
RECURSIVE Single(_, _, _)
Single(acc, chans, region) ==
  IF Len(chans) = 0 THEN acc
  ELSE LET channel_key == chans[1][1]
           channel_info == chans[1][2]
       IN  Single(Put(acc, channel_key,
                      Merge(channel_info,
                            [region_code |-> region,
                             original_id |-> channel_key])),
                  Tail(chans), region)

\* The sort keys: name.lower() with '' for a missing name, and
\* int(chno) with 99999 for a missing chno (int raises on a non-number).
NameKey(info) == lower(Get(info, "name", <<>>))

NameKeyRaises(info) == Get(info, "name", <<>>) = None

ChnoKey(info) == IF "chno" \in DOMAIN info THEN int(info.chno) ELSE Sentinel

ChnoKeyRaises(info) == "chno" \in DOMAIN info /\ IntRaises(info.chno)

\* The try/except around sorted(): the keys of channels_to_process sorted by
\* chno or by name, or in insertion order when computing a key raised.
sorted_channel_ids(channels, sortmode) ==
  LET ids == Keys(channels)
  IN  IF sortmode = "chno"
      THEN IF \E i \in 1..Len(ids) : ChnoKeyRaises(channels[i][2])
           THEN ids
           ELSE sorted(ids, [k \in Range(ids) |-> <<ChnoKey(At(channels, k)), <<>> >>])
      ELSE IF \E i \in 1..Len(ids) : NameKeyRaises(channels[i][2])
           THEN ids
           ELSE sorted(ids, [k \in Range(ids) |-> <<0, NameKey(At(channels, k))>>])

\* The EXTINF line of one channel of channels_to_process.
channel_extinf(channels, channel_id, is_all_region) ==
  LET channel == At(channels, channel_id)
      chno == Get(channel, "chno", None)
      name == Get(channel, "name", UnknownChannel)
      logo == Get(channel, "logo", <<>>)
      group == IF is_all_region
               THEN Get(channel, "group_title_override", None)
               ELSE Get(channel, "group", Uncategorized)
      original_id == channel.original_id
  IN  format_extinf(channel_id, original_id, chno, name, logo, group, name)

\* A playlist: its #EXTM3U header, its entries (EXTINF line and stream URL
\* line), and for Tubi the lines copied from upstream.
Playlist(epg, entries, body) == [url_tvg |-> epg, entries |-> entries, body |-> body]

\* The outcomes of one pass of a driver's region loop.
Skipped == [skip |-> TRUE, raised |-> FALSE]

Raised == [skip |-> FALSE, raised |-> TRUE]

Write(filename, content) ==
  [skip |-> FALSE, raised |-> FALSE, name |-> filename, content |-> content]

\* The whole region loop, res[i] being the outcome of its i-th pass: the
\* files written, in order, up to the pass that raised, if one did.
RegionLoop(res) ==
  LET n == Len(res)
      stop == {i \in 1..n : res[i].raised}
      last == IF stop = {} THEN n
              ELSE (CHOOSE i \in stop : \A j \in stop : i <= j) - 1
      done == SelectSeq([i \in 1..last |-> i], LAMBDA i : ~res[i].skip)
  IN  [writes |-> [k \in 1..Len(done) |-> <<res[done[k]].name, res[done[k]].content>>],
       raised |-> stop # {}]

\* A driver that raised before its loop, as a subscript data['regions'] in
\* place of the guard would make it.
RaisedBeforeLoop == [writes |-> <<>>, raised |-> TRUE]

\* A driver that returned before its loop.
Returned == [writes |-> <<>>, raised |-> FALSE]

---------------------------------------------------------------------------
(* generate_pluto_m3u *)

RECURSIVE pluto_all_channels(_, _)
pluto_all_channels(acc, regs) ==
  IF Len(regs) = 0 THEN acc
  ELSE LET region_key == regs[1][1]
           region_data == regs[1][2]
       IN  pluto_all_channels(
             FanOut(acc, Get(region_data, "channels", <<>>), region_key,
                    RegionName(pluto_region_name_map, region_key)),
             Tail(regs))

\* One pass of the loop over regions.
pluto_region(data, region, sortmode, sid, dev_id) ==
  LET is_all_region == lower(region) = all_
      all_regions == Get(data, "regions", <<>>)
      missing == ~is_all_region /\
                 (~Has(all_regions, region) \/ DOMAIN At(all_regions, region) = {})
      channels_to_process ==
        IF is_all_region THEN pluto_all_channels(<<>>, all_regions)
        ELSE Single(<<>>, Get(At(all_regions, region), "channels", <<>>), region)
      ids == sorted_channel_ids(channels_to_process, sortmode)
      entries == [i \in 1..Len(ids) |->
                    [extinf |-> channel_extinf(channels_to_process, ids[i], is_all_region),
                     url |-> [id |-> At(channels_to_process, ids[i]).original_id,
                              deviceId |-> dev_id, sid |-> sid]]]
  IN  IF missing THEN Skipped
      ELSE IF \E i \in 1..Len(ids) : entries[i].extinf.raised THEN Raised
      ELSE Write(FileName(<<"p","l","u","t","o","t","v">>, region),
                 Playlist(<<"PlutoTV", region>>, entries, <<>>))

\* The driver, given what fetch_url returned and the number of uuids drawn so
\* far; the n-th uuid4() is the value n.
generate_pluto_m3u(res, regs, sortmode, drawn) ==
  IF Falsy(res) \/ "regions" \notin DOMAIN res.val THEN Returned
  ELSE LET sid == drawn + 1
           dev_id == drawn + 2
       IN  RegionLoop([i \in 1..Len(regs) |->
                         pluto_region(res.val, regs[i], sortmode, sid, dev_id)])

\* uuid4() calls the driver makes
pluto_uuids(res) ==
  IF Falsy(res) \/ "regions" \notin DOMAIN res.val THEN 0 ELSE 2

---------------------------------------------------------------------------
(* generate_plex_m3u *)

\* x in list
In(x, list) == \E i \in 1..Len(list) : list[i] = x

\* genre_lookup: Title.lower() -> Genre over plex_channels_list, a later
\* title replacing an earlier equal one.
RECURSIVE genre_lookup(_, _)
genre_lookup(acc, list) ==
  IF Len(list) = 0 THEN acc
  ELSE genre_lookup(Put(acc, lower(Get(list[1], "Title", <<>>)),
                        Get(list[1], "Genre", Uncategorized)),
                    Tail(list))

\* The "all" branch: one entry per channel and region code of its regions
\* list.
RECURSIVE plex_fan_out(_, _, _, _)
plex_fan_out(acc, channel_key, channel_info, channel_regions) ==
  IF Len(channel_regions) = 0 THEN acc
  ELSE LET reg_code == channel_regions[1]
           region_full_name == RegionName(plex_region_name_map, reg_code)
           unique_channel_id == channel_key \o <<"-">> \o reg_code
       IN  plex_fan_out(Put(acc, unique_channel_id,
                            Merge(channel_info,
                                  [region_code          |-> reg_code,
                                   group_title_override |-> region_full_name,
                                   original_id          |-> channel_key])),
                        channel_key, channel_info, Tail(channel_regions))

RECURSIVE plex_all_channels(_, _)
plex_all_channels(acc, chans) ==
  IF Len(chans) = 0 THEN acc
  ELSE plex_all_channels(
         plex_fan_out(acc, chans[1][1], chans[1][2],
                      Get(chans[1][2], "regions", <<>>)),
         Tail(chans))

\* plex_region_channels without the test of the channel's regions list.
RECURSIVE plex_region_channels_unfiltered(_, _, _, _)
plex_region_channels_unfiltered(acc, chans, region, genres) ==
  IF Len(chans) = 0 THEN acc
  ELSE plex_region_channels_unfiltered(
         Put(acc, chans[1][1],
             Merge(chans[1][2],
                   [group       |-> Uncategorized,
                    original_id |-> chans[1][1],
                    region_code |-> region])),
         Tail(chans), region, genres)

\* The single-region branch: the channels whose regions list holds the
\* region, grouped by the genre looked up under their lower-cased name.
RECURSIVE plex_region_channels(_, _, _, _)
plex_region_channels(acc, chans, region, genres) ==
  IF Len(chans) = 0 THEN acc
  ELSE LET channel_key == chans[1][1]
           channel_info == chans[1][2]
           channel_name_lower == lower(Get(channel_info, "name", <<>>))
           genre == IF Has(genres, channel_name_lower)
                    THEN At(genres, channel_name_lower) ELSE Uncategorized
       IN  plex_region_channels(
             IF In(region, Get(channel_info, "regions", <<>>))
             THEN Put(acc, channel_key,
                      Merge(channel_info,
                            [group       |-> genre,
                             original_id |-> channel_key,
                             region_code |-> region]))
             ELSE acc,
             Tail(chans), region, genres)

\* Plex sorts by the pair (int(chno), name.lower()) in chno mode.
plex_sorted_channel_ids(channels, sortmode) ==
  LET ids == Keys(channels)
  IN  IF sortmode = "chno"
      THEN IF \E i \in 1..Len(ids) :
                ChnoKeyRaises(channels[i][2]) \/ NameKeyRaises(channels[i][2])
           THEN ids
           ELSE sorted(ids, [k \in Range(ids) |->
                               <<ChnoKey(At(channels, k)), NameKey(At(channels, k))>>])
      ELSE IF \E i \in 1..Len(ids) : NameKeyRaises(channels[i][2])
           THEN ids
           ELSE sorted(ids, [k \in Range(ids) |-> <<0, NameKey(At(channels, k))>>])

\* One pass of the loop over regions.
plex_region(data, genres, region, sortmode) ==
  LET is_all_region == lower(region) = all_
      all_plex_channels == Get(data, "channels", <<>>)
      missing == ~is_all_region /\ ~Has(plex_region_name_map, region)
                 /\ ~Has(Get(data, "regions", <<>>), region)
      channels_to_process ==
        IF is_all_region THEN plex_all_channels(<<>>, all_plex_channels)
        ELSE plex_region_channels(<<>>, all_plex_channels, region, genres)
      ids == plex_sorted_channel_ids(channels_to_process, sortmode)
      entries == [i \in 1..Len(ids) |->
                    [extinf |-> channel_extinf(channels_to_process, ids[i], is_all_region),
                     url |-> [id |-> At(channels_to_process, ids[i]).original_id]]]
  IN  IF missing THEN Skipped
      ELSE IF \E i \in 1..Len(ids) : entries[i].extinf.raised THEN Raised
      ELSE Write(FileName(<<"p","l","e","x">>, region),
                 Playlist(<<"Plex", region>>, entries, <<>>))

\* The driver, given what its two fetch_url calls returned.
generate_plex_m3u(res, genre_res, regs, sortmode) ==
  IF Falsy(res) \/ "channels" \notin DOMAIN res.val THEN Returned
  ELSE LET plex_channels_list ==
             IF ~genre_res.ok \/ Len(genre_res.val) = 0 THEN <<>> ELSE genre_res.val
           genres == genre_lookup(<<>>, plex_channels_list)
       IN  RegionLoop([i \in 1..Len(regs) |->
                         plex_region(res.val, genres, regs[i], sortmode)])

---------------------------------------------------------------------------
(* generate_samsungtvplus_m3u *)

RECURSIVE samsung_all_channels(_, _)
samsung_all_channels(acc, regs) ==
  IF Len(regs) = 0 THEN acc
  ELSE LET region_key == regs[1][1]
           region_data == regs[1][2]
       IN  samsung_all_channels(
             FanOut(acc, Get(region_data, "channels", <<>>), region_key,
                    Get(region_data, "name", upper(region_key))),
             Tail(regs))

\* One pass of the loop over regions; data['slug'] raises KeyError when the
\* first entry is built from a document with no slug.
samsung_region(data, region, sortmode) ==
  LET is_all_region == lower(region) = all_
      all_regions == Get(data, "regions", <<>>)
      missing == ~is_all_region /\
                 (~Has(all_regions, region) \/ DOMAIN At(all_regions, region) = {})
      channels_to_process ==
        IF is_all_region THEN samsung_all_channels(<<>>, all_regions)
        ELSE Single(<<>>, Get(At(all_regions, region), "channels", <<>>), region)
      ids == sorted_channel_ids(channels_to_process, sortmode)
      entries == [i \in 1..Len(ids) |->
                    [extinf |-> channel_extinf(channels_to_process, ids[i], is_all_region),
                     url |-> [slug |-> data.slug,
                              id |-> At(channels_to_process, ids[i]).original_id]]]
  IN  IF missing THEN Skipped
      ELSE IF Len(ids) > 0 /\ "slug" \notin DOMAIN data THEN Raised
      ELSE IF \E i \in 1..Len(ids) : entries[i].extinf.raised THEN Raised
      ELSE Write(FileName(<<"s","a","m","s","u","n","g","t","v","p","l","u","s">>, region),
                 Playlist(<<"SamsungTVPlus", region>>, entries, <<>>))

generate_samsungtvplus_m3u(res, regs, sortmode) ==
  IF Falsy(res) \/ "regions" \notin DOMAIN res.val THEN Returned
  ELSE RegionLoop([i \in 1..Len(regs) |-> samsung_region(res.val, regs[i], sortmode)])

---------------------------------------------------------------------------
(* generate_stirr_m3u, generate_roku_m3u, generate_tubi_m3u *)

\* ', '.join(list)
RECURSIVE join(_)
join(list) ==
  IF Len(list) = 0 THEN <<>>
  ELSE IF Len(list) = 1 THEN list[1]
  ELSE list[1] \o <<",", " ">> \o join(Tail(list))

\* sorted(keys, key=name.lower()), outside any try
name_sorted_ids(channels) ==
  sorted(Keys(channels),
         [k \in Range(Keys(channels)) |-> <<0, NameKey(At(channels, k))>>])

generate_stirr_m3u(res) ==
  IF Falsy(res) \/ "channels" \notin DOMAIN res.val THEN Returned
  ELSE LET channels_to_process == Get(res.val, "channels", <<>>)
           ids == name_sorted_ids(channels_to_process)
           extinf(channel_id) ==
             LET channel == At(channels_to_process, channel_id)
             IN  format_extinf(channel_id, channel_id, Get(channel, "chno", None),
                               Get(channel, "name", None), Get(channel, "logo", None),
                               join(Get(channel, "groups", <<>>)),
                               Get(channel, "name", None))
           entries == [i \in 1..Len(ids) |->
                         [extinf |-> extinf(ids[i]), url |-> [id |-> ids[i]]]]
       IN  IF \E i \in 1..Len(ids) : entries[i].extinf.raised
           THEN [writes |-> <<>>, raised |-> TRUE]
           ELSE [writes |-> << <<FileName(<<"s","t","i","r","r">>, all_),
                                 Playlist(<<"Stirr", all_>>, entries, <<>>)>> >>,
                 raised |-> FALSE]

\* groups[0] raises IndexError on an empty groups list.
generate_roku_m3u(res) ==
  IF Falsy(res) \/ "channels" \notin DOMAIN res.val THEN Returned
  ELSE LET channels_to_process == Get(res.val, "channels", <<>>)
           ids == name_sorted_ids(channels_to_process)
           groups(channel_id) ==
             Get(At(channels_to_process, channel_id), "groups", <<Uncategorized>>)
           extinf(channel_id) ==
             LET channel == At(channels_to_process, channel_id)
             IN  format_extinf(channel_id, channel_id, Get(channel, "chno", None),
                               Get(channel, "name", None), Get(channel, "logo", None),
                               groups(channel_id)[1], Get(channel, "name", None))
           entries == [i \in 1..Len(ids) |->
                         [extinf |-> extinf(ids[i]), url |-> [id |-> ids[i]]]]
       IN  IF \E i \in 1..Len(ids) :
                Len(groups(ids[i])) = 0 \/ entries[i].extinf.raised
           THEN [writes |-> <<>>, raised |-> TRUE]
           ELSE [writes |-> << <<FileName(<<"r","o","k","u">>, all_),
                                 Playlist(<<"Roku", all_>>, entries, <<>>)>> >>,
                 raised |-> FALSE]

ExtM3U == <<"#","E","X","T","M","3","U">>

\* The upstream text is its sequence of lines; the first is dropped when it
\* is the #EXTM3U header in any letter case.
generate_tubi_m3u(res) ==
  IF ~res.ok \/ Len(res.val) = 0 THEN Returned
  ELSE LET lines == res.val
           playlist_data == IF upper(lines[1]) = ExtM3U THEN Tail(lines) ELSE lines
       IN  [writes |-> << <<FileName(<<"t","u","b","i">>, all_),
                            Playlist(<<"Tubi", all_>>, <<>>, playlist_data)>> >>,
            raised |-> FALSE]

---------------------------------------------------------------------------
(* The main loop: for service in services, try the driver, log what it
   raises *)

PLUTO_URL == "https://github.com/matthuisman/i.mjh.nz/raw/refs/heads/master/PlutoTV/.channels.json.gz"

PLEX_URL == "https://github.com/matthuisman/i.mjh.nz/raw/refs/heads/master/Plex/.channels.json.gz"

CHANNELS_JSON_URL == "https://raw.githubusercontent.com/Mikoshi-nyudo/plex-channels-list/refs/heads/main/plex/channels.json"

SAMSUNG_URL == "https://github.com/matthuisman/i.mjh.nz/raw/refs/heads/master/SamsungTVPlus/.channels.json.gz"

STIRR_URL == "https://github.com/matthuisman/i.mjh.nz/raw/refs/heads/master/Stirr/.channels.json.gz"

TUBI_PLAYLIST_URL == "https://raw.githubusercontent.com/BuddyChewChew/tubi-scraper/refs/heads/main/tubi_playlist.m3u"

ROKU_URL == "https://i.mjh.nz/Roku/.channels.json"

Urls == {PLUTO_URL, PLEX_URL, CHANNELS_JSON_URL, SAMSUNG_URL, STIRR_URL,
         TUBI_PLAYLIST_URL, ROKU_URL}

\* What fetch_url(url, ...) returns when called now.
FetchNow(url, is_json, is_gzipped) ==
  fetch_url(NextResponse(url), is_json, is_gzipped, FALSE)

Running(service) == pc <= Len(services) /\ services[pc] = service

\* The effect of one pass of the main loop: the driver fetched urls, made
\* out.writes through write_m3u_file and drew uuids; if it raised, the except
\* clause logged it.
Ran(service, urls, out, uuids) ==
  /\ gets' = [u \in Urls |-> IF u \in urls THEN gets[u] + 1 ELSE gets[u]]
  /\ files' = WriteAll(files, out.writes)
  /\ written' = written \cup {out.writes[i][1] : i \in 1..Len(out.writes)}
  /\ dirExists' = (dirExists \/ Len(out.writes) > 0)
  /\ invoked' = Append(invoked, service)
  /\ raised' = IF out.raised THEN raised \cup {service} ELSE raised
  /\ uuidCount' = uuidCount + uuids
  /\ pc' = pc + 1
  /\ UNCHANGED <<services, regions, sort, net, call, ret>>

MainPluto ==
  /\ Running("pluto")
  /\ LET res == FetchNow(PLUTO_URL, TRUE, TRUE)
     IN  Ran("pluto", {PLUTO_URL},
             generate_pluto_m3u(res, regions, sort, uuidCount), pluto_uuids(res))

MainPlex ==
  /\ Running("plex")
  /\ Ran("plex", {PLEX_URL, CHANNELS_JSON_URL},
         generate_plex_m3u(FetchNow(PLEX_URL, TRUE, TRUE),
                           FetchNow(CHANNELS_JSON_URL, TRUE, FALSE),
                           regions, sort), 0)

MainSamsung ==
  /\ Running("samsungtvplus")
  /\ Ran("samsungtvplus", {SAMSUNG_URL},
         generate_samsungtvplus_m3u(FetchNow(SAMSUNG_URL, TRUE, TRUE),
                                    regions, sort), 0)

MainStirr ==
  /\ Running("stirr")
  /\ Ran("stirr", {STIRR_URL},
         generate_stirr_m3u(FetchNow(STIRR_URL, TRUE, TRUE)), 0)

MainTubi ==
  /\ Running("tubi")
  /\ Ran("tubi", {TUBI_PLAYLIST_URL},
         generate_tubi_m3u(FetchNow(TUBI_PLAYLIST_URL, FALSE, FALSE)), 0)

MainRoku ==
  /\ Running("roku")
  /\ Ran("roku", {ROKU_URL},
         generate_roku_m3u(FetchNow(ROKU_URL, TRUE, FALSE)), 0)

Next == MainPluto \/ MainPlex \/ MainSamsung \/ MainStirr \/ MainTubi \/ MainRoku

Done == pc = Len(services) + 1

---------------------------------------------------------------------------
(* Direct calls of fetch_url and format_extinf *)

NotCalled == [fn |-> "none"]

NotReturned == [done |-> FALSE]

CallFetchUrl ==
  /\ call.fn = "fetch_url" /\ ~ret.done
  /\ ret' = [done |-> TRUE,
             res |-> fetch_url(NextResponse(call.url), call.is_json,
                               call.is_gzipped, call.stream)]
  /\ gets' = [gets EXCEPT ![call.url] = @ + 1]
  /\ UNCHANGED <<pc, services, regions, sort, net, dirExists, files, written,
                 invoked, raised, uuidCount, call>>

CallFormatExtinf ==
  /\ call.fn = "format_extinf" /\ ~ret.done
  /\ ret' = [done |-> TRUE,
             res |-> format_extinf(call.channel_id, call.tvg_id, call.tvg_chno,
                                   call.tvg_name, call.tvg_logo,
                                   call.group_title, call.display_name)]
  /\ UNCHANGED <<pc, services, regions, sort, net, gets, dirExists, files,
                 written, invoked, raised, uuidCount, call>>

---------------------------------------------------------------------------
(* The inputs: upstream documents, responses, directory contents *)

\* Bounds of the inputs.
MaxChannels == 2

MaxAttempts == 2

MaxStrLen == 1

us == <<"u","s">>

ca == <<"c","a">>

gb == <<"g","b">>

au == <<"a","u">>

kr == <<"k","r">>

\* Region keys of the generated documents: one with a display name in every
\* table, one with none.
RegionKeys == {us, kr}

ChannelIds == {<<"A">>, <<"B","-","u","s">>}

\* Channel records of the region feeds (Pluto, Samsung): complete ones, ones
\* with name, chno, logo or group missing or empty, with a double quote, with
\* a chno that is not a number.
ChannelInfos ==
  { [name |-> <<"b">>, logo |-> <<"l">>, group |-> <<"g">>, chno |-> <<"1","0">>],
    [name |-> <<"A">>, logo |-> <<"l", DQ>>, group |-> <<>>, chno |-> <<"2">>],
    [logo |-> <<"l">>, group |-> <<"g">>],
    [name |-> <<>>, chno |-> <<"x">>] }

\* Channel records of the Plex feed, and their regions lists.
PlexInfos ==
  { [name |-> <<"b">>, logo |-> <<"l">>, chno |-> <<"1","0">>],
    [name |-> <<"A">>, chno |-> <<"2">>],
    [logo |-> <<"l", DQ>>, chno |-> <<"x">>] }

Memberships == {<< <<>> >>, << <<us>> >>, << <<kr, us>> >>, <<>>}

\* Channel records of the flat feeds (Stirr, Roku).
FlatInfos ==
  { [name |-> <<"b">>, logo |-> <<"l">>, groups |-> << <<"g">>, <<"h">> >>, chno |-> <<"1","0">>],
    [name |-> <<"A">>, logo |-> <<"l">>, groups |-> << <<"g">> >>],
    [logo |-> <<"l">>, groups |-> << <<"g">> >>],
    [name |-> <<"a">>, groups |-> << <<"g">> >>],
    [name |-> <<"a">>, logo |-> <<"l">>],
    [name |-> <<>>, logo |-> <<"l">>, groups |-> <<>>] }

\* All sequences of at most n elements of S.
SeqsUpTo(S, n) == UNION {[1..k -> S] : k \in 0..n}

\* The regions object of a region feed holding the channels rows lists, each
\* row a region key, a channel key and a channel record; with named, the
\* region us carries a name of its own.
RECURSIVE BuildRegions(_, _, _)
BuildRegions(acc, rows, named) ==
  IF Len(rows) = 0 THEN acc
  ELSE LET r == rows[1][1]
           base == IF named /\ r = us
                   THEN [name |-> <<"U","S","A">>, channels |-> <<>>]
                   ELSE [channels |-> <<>>]
           region_data == IF Has(acc, r) THEN At(acc, r) ELSE base
       IN  BuildRegions(
             Put(acc, r, [region_data EXCEPT
                            !.channels = Put(@, rows[1][2], rows[1][3])]),
             Tail(rows), named)

\* The channels object of a flat feed holding the channels rows lists.
RECURSIVE BuildChannels(_, _)
BuildChannels(acc, rows) ==
  IF Len(rows) = 0 THEN acc
  ELSE BuildChannels(Put(acc, rows[1][1], rows[1][2]), Tail(rows))

EmptyDict == [k \in {} |-> 0]

\* A document that lacks the key its driver reads.
PartialDoc == [error |-> <<"x">>]

RegionRows(n) == SeqsUpTo(RegionKeys \X ChannelIds \X ChannelInfos, n)

PlutoDocs(n) ==
  {[regions |-> BuildRegions(<<>>, rows, FALSE)] : rows \in RegionRows(n)}
  \cup {PartialDoc, EmptyDict}

SamsungDocs(n) ==
  {[regions |-> BuildRegions(<<>>, rows, TRUE), slug |-> <<"s","-","{","i","d","}">>] :
     rows \in RegionRows(n)}
  \cup {[regions |-> BuildRegions(<<>>, rows, TRUE)] : rows \in RegionRows(n)}
  \cup {PartialDoc, EmptyDict}

\* A Plex channel record with its regions list, absent when m is empty.
WithRegions(info, m) ==
  IF Len(m) = 0 THEN info ELSE Merge(info, [regions |-> m[1]])

PlexRows(n) == SeqsUpTo(ChannelIds \X PlexInfos \X Memberships, n)

PlexChannels(rows) ==
  BuildChannels(<<>>, [i \in 1..Len(rows) |->
                         <<rows[i][1], WithRegions(rows[i][2], rows[i][3])>>])

PlexDocs(n) ==
  {[channels |-> PlexChannels(rows)] : rows \in PlexRows(n)}
  \cup {[channels |-> PlexChannels(rows), regions |-> << <<kr, EmptyDict>> >>] :
          rows \in PlexRows(n)}
  \cup {PartialDoc, EmptyDict}

GenreList == << [Title |-> <<"B">>, Genre |-> <<"N","e","w","s">>],
                [Title |-> <<"A">>] >>

FlatDocs(n) ==
  {[channels |-> BuildChannels(<<>>, rows)] :
     rows \in SeqsUpTo(ChannelIds \X FlatInfos, n)}
  \cup {PartialDoc, EmptyDict}

TubiTexts ==
  { <<>>,
    << <<"#","E","X","T","M","3","U">>, <<"#","E","X","T","I","N","F">>, <<"u","r","l">> >>,
    << <<"#","e","x","t","m","3","u">>, <<"u","r","l">> >>,
    << <<"#","E","X","T","I","N","F">>, <<"u","r","l">> >> }

\* Outcomes of one GET.
Unreachable == [status |-> "unreachable"]

Http(code) == [status |-> code]

JsonBody(enc, doc) ==
  [status |-> "200", enc |-> enc, json |-> TRUE, doc |-> doc,
   text |-> << <<"{","}">> >>]

TextBody(enc, text) ==
  [status |-> "200", enc |-> enc, json |-> FALSE, text |-> text]

Failures == {Unreachable, Http("429"), Http("503")}

\* What url may answer to a driver: one good answer with any of docs, a
\* rate-limit answer followed by a good one, or no answer at all.
Answers(docs, enc) ==
  {<<JsonBody(enc, d)>> : d \in docs}
  \cup {<<Http("429"), JsonBody(enc, PartialDoc)>>, <<Unreachable>>}

TextAnswers(texts) ==
  {<<TextBody("plain", t)>> : t \in texts}
  \cup {<<Http("429"), TextBody("plain", <<>>)>>, <<Unreachable>>}

---------------------------------------------------------------------------
(* The program: python generate_playlists.py *)

Services == <<"pluto", "plex", "samsungtvplus", "stirr", "tubi", "roku">>

MainRegions == <<us, ca, gb, au, all_>>

\* What OUTPUT_DIR may hold when the program starts: nothing (no directory, or
\* an empty one), or the files of an earlier run.
OldPlaylist == Playlist(<<"old">>, <<>>, << <<"o","l","d">> >>)

OldFiles ==
  [n \in {FileName(<<"p","l","u","t","o","t","v">>, <<"d","e">>),
          FileName(<<"s","t","i","r","r">>, all_)} |-> OldPlaylist]

\* One document per feed with every field present, and one with a field or a
\* key missing.
MainPlutoDocs ==
  { [regions |-> BuildRegions(<<>>,
       << <<us, <<"A">>, [name |-> <<"b">>, logo |-> <<"l">>, group |-> <<"g">>, chno |-> <<"2">>]>>,
          <<gb, <<"A">>, [name |-> <<"A">>, logo |-> <<"l">>, group |-> <<"g">>, chno |-> <<"1">>]>> >>,
       FALSE)],
    [regions |-> BuildRegions(<<>>,
       << <<us, <<"A">>, [logo |-> <<"l">>]>>,
          <<us, <<"B">>, [name |-> <<"b">>, logo |-> <<"l">>, group |-> <<"g">>]>> >>,
       FALSE)] }

MainSamsungDocs ==
  { [regions |-> BuildRegions(<<>>,
       << <<us, <<"A">>, [name |-> <<"b">>, logo |-> <<"l">>, group |-> <<"g">>, chno |-> <<"2">>]>>,
          <<gb, <<"B">>, [name |-> <<"A">>, logo |-> <<"l">>, group |-> <<"g">>]>> >>,
       TRUE),
     slug |-> <<"s","-","{","i","d","}">>],
    [regions |-> BuildRegions(<<>>,
       << <<gb, <<"B">>, [logo |-> <<"l">>, group |-> <<"g">>]>> >>,
       TRUE),
     slug |-> <<"s","-","{","i","d","}">>] }

MainPlexDocs ==
  { [channels |-> << << <<"A">>, [name |-> <<"b">>, logo |-> <<"l">>, regions |-> <<us, gb>>]>>,
                     << <<"B">>, [name |-> <<"A">>, logo |-> <<"l">>, regions |-> <<us>>]>> >>],
    [channels |-> << << <<"A">>, [logo |-> <<"l">>, regions |-> <<us>>]>>,
                     << <<"B">>, [name |-> <<"A">>, logo |-> <<"l">>]>> >>] }

MainFlatDocs ==
  { [channels |-> << << <<"A">>, [name |-> <<"b">>, logo |-> <<"l">>, groups |-> << <<"g">> >>]>>,
                     << <<"B">>, [name |-> <<"A">>, logo |-> <<"l">>, groups |-> << <<"g">> >>]>> >>],
    [channels |-> << << <<"A">>, [name |-> <<"b">>, logo |-> <<"l">>, groups |-> << <<"g">> >>]>>,
                     << <<"B">>, [logo |-> <<"l">>, groups |-> << <<"g">> >>]>> >>] }

Fresh ==
  /\ pc = 1
  /\ gets = [u \in Urls |-> 0]
  /\ written = {}
  /\ invoked = <<>>
  /\ raised = {}
  /\ uuidCount = 0
  /\ ret = NotReturned

Init ==
  /\ Fresh
  /\ call = NotCalled
  /\ services = Services
  /\ regions = MainRegions
  /\ sort = "name"
  /\ \E old \in {"none", "empty", "files"} :
       /\ dirExists = (old # "none")
       /\ files = IF old = "files" THEN OldFiles ELSE EmptyDict
  /\ \E pluto \in {<<Unreachable>>} \cup {<<JsonBody("gzip", d)>> : d \in MainPlutoDocs},
        plex \in {<<Http("429"), JsonBody("gzip", CHOOSE d \in MainPlexDocs : TRUE)>>}
                 \cup {<<JsonBody("gzip", d)>> : d \in MainPlexDocs},
        genres \in {<<Unreachable>>, <<JsonBody("plain", GenreList)>>},
        samsung \in {<<Http("503")>>} \cup {<<JsonBody("gzip", d)>> : d \in MainSamsungDocs},
        stirr \in {<<Unreachable>>} \cup {<<JsonBody("gzip", d)>> : d \in MainFlatDocs},
        tubi \in {<<Unreachable>>} \cup {<<TextBody("plain", t)>> : t \in TubiTexts \ {<<>>}},
        roku \in {<<Unreachable>>} \cup {<<JsonBody("plain", d)>> : d \in MainFlatDocs} :
       net = [u \in Urls |->
                CASE u = PLUTO_URL -> pluto
                  [] u = PLEX_URL -> plex
                  [] u = CHANNELS_JSON_URL -> genres
                  [] u = SAMSUNG_URL -> samsung
                  [] u = STIRR_URL -> stirr
                  [] u = TUBI_PLAYLIST_URL -> tubi
                  [] u = ROKU_URL -> roku]

Spec == Init /\ [][Next]_vars

---------------------------------------------------------------------------
(* The program when feeds answer with documents that lack a top-level key *)

\* Documents json.loads accepts that lack "regions": one with another key
\* only, the empty object, and a document of the flat "channels" shape.
NoRegionsDocs == {PartialDoc, EmptyDict} \cup {CHOOSE d \in MainFlatDocs : TRUE}

\* Documents json.loads accepts that lack "channels".
NoChannelsDocs == {PartialDoc, EmptyDict} \cup {CHOOSE d \in MainPlutoDocs : TRUE}

InitPartial ==
  /\ Fresh
  /\ call = NotCalled
  /\ services = Services
  /\ regions = MainRegions
  /\ sort = "name"
  /\ dirExists = TRUE
  /\ files = OldFiles
  /\ \E pluto \in NoRegionsDocs \cup MainPlutoDocs,
        plex \in NoChannelsDocs \cup MainPlexDocs,
        samsung \in NoRegionsDocs \cup MainSamsungDocs,
        stirr \in NoChannelsDocs \cup MainFlatDocs,
        roku \in NoChannelsDocs \cup MainFlatDocs,
        tubi \in {<<TextBody("plain", << <<"#","E","X","T","I","N","F">>, <<"u","r","l">> >>)>>} :
       net = [u \in Urls |->
                CASE u = PLUTO_URL -> <<JsonBody("gzip", pluto)>>
                  [] u = PLEX_URL -> <<JsonBody("gzip", plex)>>
                  [] u = CHANNELS_JSON_URL -> <<JsonBody("plain", GenreList)>>
                  [] u = SAMSUNG_URL -> <<JsonBody("gzip", samsung)>>
                  [] u = STIRR_URL -> <<JsonBody("gzip", stirr)>>
                  [] u = TUBI_PLAYLIST_URL -> tubi
                  [] u = ROKU_URL -> <<JsonBody("plain", roku)>>]

SpecPartial == InitPartial /\ [][Next]_vars

---------------------------------------------------------------------------
(* One driver called on its own, with any regions and sort arguments *)

DriverRegions == {<<us, kr, gb, all_>>}

Sorts == {"name", "chno"}

\* The network when only url answers, with answer.
Only(url, answer) == [u \in Urls |-> IF u = url THEN answer ELSE <<Unreachable>>]

InitDriver ==
  /\ Fresh
  /\ call = NotCalled
  /\ dirExists = TRUE
  /\ files = EmptyDict
  /\ \/ /\ services = <<"pluto">>
        /\ regions \in DriverRegions /\ sort \in Sorts
        /\ \E a \in Answers(PlutoDocs(MaxChannels), "gzip") : net = Only(PLUTO_URL, a)
     \/ /\ services = <<"samsungtvplus">>
        /\ regions \in DriverRegions /\ sort \in Sorts
        /\ \E a \in Answers(SamsungDocs(MaxChannels), "gzip") : net = Only(SAMSUNG_URL, a)
     \/ /\ services = <<"plex">>
        /\ regions \in DriverRegions /\ sort \in Sorts
        /\ \E a \in Answers(PlexDocs(MaxChannels), "gzip"),
              g \in {<<Unreachable>>, <<JsonBody("plain", GenreList)>>} :
             net = [Only(PLEX_URL, a) EXCEPT ![CHANNELS_JSON_URL] = g]
     \/ /\ services = <<"stirr">>
        /\ regions = MainRegions /\ sort = "name"
        /\ \E a \in Answers(FlatDocs(MaxChannels), "gzip") : net = Only(STIRR_URL, a)
     \/ /\ services = <<"roku">>
        /\ regions = MainRegions /\ sort = "name"
        /\ \E a \in Answers(FlatDocs(MaxChannels), "plain") : net = Only(ROKU_URL, a)
     \/ /\ services = <<"tubi">>
        /\ regions = MainRegions /\ sort = "name"
        /\ \E a \in TextAnswers(TubiTexts) : net = Only(TUBI_PLAYLIST_URL, a)

SpecDriver == InitDriver /\ [][Next]_vars

---------------------------------------------------------------------------
(* fetch_url called on its own *)

\* The bodies a GET may bring: JSON or text, gzipped, plain or damaged.
FetchResponses ==
  Failures
  \cup {JsonBody(enc, PartialDoc) : enc \in {"gzip", "plain", "corrupt"}}
  \cup {TextBody(enc, << <<"u","r","l">> >>) : enc \in {"gzip", "plain", "corrupt"}}

\* No main loop runs: the list of services is empty.
Idle ==
  /\ Fresh
  /\ services = <<>>
  /\ regions = MainRegions
  /\ sort = "name"
  /\ dirExists = TRUE
  /\ files = EmptyDict

InitFetch ==
  /\ Idle
  /\ \E url \in {PLUTO_URL, TUBI_PLAYLIST_URL},
        rs \in SeqsUpTo(FetchResponses, MaxAttempts) \ {<<>>} :
       /\ net = Only(url, rs)
       /\ call \in [fn : {"fetch_url"}, url : {url}, is_json : BOOLEAN,
                    is_gzipped : BOOLEAN, stream : BOOLEAN]

NextFetch == CallFetchUrl

SpecFetch == InitFetch /\ [][NextFetch]_vars

---------------------------------------------------------------------------
(* format_extinf called on its own *)

\* The strings of at most n characters over a letter, the double quote and
\* the comma, and None.
Strs(n) == SeqsUpTo({"a", DQ, ","}, n) \cup {None}

InitExtinf ==
  /\ Idle
  /\ net = [u \in Urls |-> <<Unreachable>>]
  /\ \E id \in {<<"A">>, <<"A", DQ>>}, tvg \in {<<"A">>, <<"A", DQ>>},
        chno \in {None, <<"7">>, <<"x">>, <<"7", DQ>>},
        name \in Strs(MaxStrLen), logo \in Strs(MaxStrLen),
        group \in Strs(MaxStrLen) :
       call = [fn |-> "format_extinf", channel_id |-> id, tvg_id |-> tvg,
               tvg_chno |-> chno, tvg_name |-> name, tvg_logo |-> logo,
               group_title |-> group, display_name |-> name]

NextExtinf == CallFormatExtinf

SpecExtinf == InitExtinf /\ [][NextExtinf]_vars

---------------------------------------------------------------------------
(* Reading the output directory *)

PrefixOf(service) ==
  CASE service = "pluto" -> <<"p","l","u","t","o","t","v">>
    [] service = "plex" -> <<"p","l","e","x">>
    [] service = "samsungtvplus" -> <<"s","a","m","s","u","n","g","t","v","p","l","u","s">>
    [] service = "stirr" -> <<"s","t","i","r","r">>
    [] service = "tubi" -> <<"t","u","b","i">>
    [] service = "roku" -> <<"r","o","k","u">>

UrlOf(service) ==
  CASE service = "pluto" -> PLUTO_URL
    [] service = "plex" -> PLEX_URL
    [] service = "samsungtvplus" -> SAMSUNG_URL
    [] service = "stirr" -> STIRR_URL
    [] service = "tubi" -> TUBI_PLAYLIST_URL
    [] service = "roku" -> ROKU_URL

\* The files named "{prefix}_*" among names.
FilesOf(service, names) ==
  LET p == PrefixOf(service) \o <<"_">>
  IN  {n \in names : Len(n) >= Len(p) /\ SubSeq(n, 1, Len(p)) = p}

\* What the first GET to the service's feed brought, as its driver fetches it.
FirstFetch(service) ==
  fetch_url(net[UrlOf(service)][1], service # "tubi",
            service \in {"pluto", "plex", "samsungtvplus", "stirr"}, FALSE)

\* The service's fetch brought a document with the key its driver reads (for
\* Tubi, a text that is not empty).
FetchSucceeded(service) ==
  LET res == FirstFetch(service)
  IN  /\ res.ok
      /\ IF service = "tubi" THEN Len(res.val) > 0
         ELSE IF service \in {"pluto", "samsungtvplus"} THEN "regions" \in DOMAIN res.val
         ELSE "channels" \in DOMAIN res.val

HasQuote(x) == \E i \in 1..Len(x) : x[i] = DQ

---------------------------------------------------------------------------
(* C1 *)

\* C1, as claimed: after a run of the main loop in which the fetch of some
\* service failed, no file of a service whose fetch failed was written, every
\* driver was called, and every service whose own fetch succeeded wrote its
\* files (at least its "all" playlist, main asking for the region "all").
FetchFailureIsolation ==
  (Done /\ \E s \in Range(services) : ~FirstFetch(s).ok) =>
    /\ invoked = services
    /\ \A s \in Range(services) :
         /\ ~FirstFetch(s).ok => FilesOf(s, written) = {}
         /\ FetchSucceeded(s) => FileName(PrefixOf(s), all_) \in written

\* The part of C1 that holds: a failed fetch leaves no file of that service,
\* and every driver is called whatever the others did.
FailedFetchWritesNothing ==
  Done =>
    /\ invoked = services
    /\ \A s \in Range(services) : ~FirstFetch(s).ok => FilesOf(s, written) = {}

---------------------------------------------------------------------------
(* C2 *)

\* The stream URL lines of the Pluto playlists written, as <<file, index>>.
PlutoLines ==
  UNION {{<<n, i>> : i \in 1..Len(files[n].entries)} : n \in FilesOf("pluto", written)}

\* C2, as claimed: no two stream URL lines the Pluto driver wrote, in one file
\* or in two, carry the same sid or the same deviceId.
FreshSessionIdsPerLine ==
  \A a \in PlutoLines, b \in PlutoLines :
    a # b =>
      /\ files[a[1]].entries[a[2]].url.sid # files[b[1]].entries[b[2]].url.sid
      /\ files[a[1]].entries[a[2]].url.deviceId # files[b[1]].entries[b[2]].url.deviceId

---------------------------------------------------------------------------
(* C3 *)

\* The channels object a flat driver read, and the channels a region driver
\* read under region.
FlatChannels(service) == Get(FirstFetch(service).val, "channels", <<>>)

ChannelsUnder(service, region) ==
  LET regs == Get(FirstFetch(service).val, "regions", <<>>)
  IN  IF Has(regs, region) THEN Get(At(regs, region), "channels", <<>>) ELSE <<>>

\* The entry of channel_id in the playlist written under name: there is one,
\* it carries "Unknown Channel" for a missing name and an empty logo for a
\* missing logo.
DefaultsIn(name, channel_id, info) ==
  /\ name \in written
  /\ \E i \in 1..Len(files[name].entries) :
       LET e == files[name].entries[i].extinf
       IN  /\ e.channel_id = channel_id
           /\ "name" \notin DOMAIN info => e.tvg_name = UnknownChannel
           /\ "logo" \notin DOMAIN info => e.tvg_logo = <<>>

\* No channel of the document has an empty groups list (on which Roku's
\* groups[0] raises, whatever its name and logo).
NoEmptyGroups(chans) ==
  \A i \in 1..Len(chans) : Get(chans[i][2], "groups", << <<"g">> >>) # <<>>

\* C3, as claimed: a channel without name or logo does not cost a driver its
\* file; the channel is emitted as "Unknown Channel" and with an empty logo,
\* next to the other channels.  Stated for the flat drivers (every channel of
\* the feed) and for the single-region playlists of Pluto and Samsung.
MissingFieldTolerance ==
  Done =>
    /\ \A s \in Range(services) \cap {"stirr", "roku"} :
         (FetchSucceeded(s) /\ NoEmptyGroups(FlatChannels(s))) =>
           /\ s \notin raised
           /\ \A i \in 1..Len(FlatChannels(s)) :
                DefaultsIn(FileName(PrefixOf(s), all_), FlatChannels(s)[i][1],
                           FlatChannels(s)[i][2])
    /\ \A s \in Range(services) \cap {"pluto", "samsungtvplus"} :
         (FetchSucceeded(s) /\ (s = "pluto" \/ "slug" \in DOMAIN FirstFetch(s).val)) =>
           /\ s \notin raised
           /\ \A r \in Range(regions) \ {all_} :
                \A i \in 1..Len(ChannelsUnder(s, r)) :
                  DefaultsIn(FileName(PrefixOf(s), r), ChannelsUnder(s, r)[i][1],
                             ChannelsUnder(s, r)[i][2])

---------------------------------------------------------------------------
(* C6 *)

\* C6, as claimed: after a run the output directory holds only files that
\* this run wrote.
DirectoryOwnedByRun == Done => DOMAIN files = written

---------------------------------------------------------------------------
(* C8 *)

\* C8, as claimed: no attribute value of a rendered #EXTINF line holds a
\* double quote.
NoQuoteInAttributes ==
  (call.fn = "format_extinf" /\ ret.done /\ ~ret.res.raised) =>
    /\ ~HasQuote(ret.res.channel_id)
    /\ ~HasQuote(ret.res.tvg_id)
    /\ ~HasQuote(ret.res.tvg_chno)
    /\ ~HasQuote(ret.res.tvg_name)
    /\ ~HasQuote(ret.res.tvg_logo)
    /\ ~HasQuote(ret.res.group_title)

\* The part of C8 that holds: tvg-name, group-title and tvg-chno carry no
\* double quote.
NoQuoteInNameGroupChno ==
  (call.fn = "format_extinf" /\ ret.done /\ ~ret.res.raised) =>
    /\ ~HasQuote(ret.res.tvg_chno)
    /\ ~HasQuote(ret.res.tvg_name)
    /\ ~HasQuote(ret.res.group_title)

---------------------------------------------------------------------------
(* C9 *)

\* The playlists the channel drivers wrote.
ChannelPlaylists ==
  UNION {FilesOf(s, written) : s \in {"pluto", "plex", "samsungtvplus", "stirr", "roku"}}

\* C9, as claimed: every entry written by the Pluto, Plex, Samsung, Stirr and
\* Roku drivers has a name and a group-title that are not empty.
NameAndGroupNeverEmpty ==
  \A n \in ChannelPlaylists :
    \A i \in 1..Len(files[n].entries) :
      /\ files[n].entries[i].extinf.tvg_name # <<>>
      /\ files[n].entries[i].extinf.display_name # <<>>
      /\ files[n].entries[i].extinf.group_title # <<>>

---------------------------------------------------------------------------
(* C10 *)

\* The responses of the called URL, and whether fetch_url would return
\* content on getting the k-th.
Responses == net[call.url]

GoodResponse(k) ==
  fetch_url(Responses[k], call.is_json, call.is_gzipped, call.stream).ok

\* C10, as claimed: a fetch whose first attempt fails and whose second
\* attempt would succeed returns the content, having issued the second GET.
RetryAfterFailure ==
  (call.fn = "fetch_url" /\ ret.done /\ Len(Responses) >= 2
     /\ Responses[1] \in Failures /\ GoodResponse(2)) =>
    /\ ret.res.ok
    /\ gets[call.url] = 2

\* What fetch_url does instead: one GET, whose failure is the result.
SingleAttempt ==
  (call.fn = "fetch_url" /\ ret.done) =>
    /\ gets[call.url] = 1
    /\ ret.res.ok = GoodResponse(1)

---------------------------------------------------------------------------
(* C7 *)

\* Whether an entry shows a channel number, and the number it shows.
Numbered(e) == e.extinf.tvg_chno # <<>>

\* C7, as claimed, for sort='chno': in every playlist of a region driver the
\* numbered entries come in non-decreasing order of their number, and no
\* entry without a number (chno missing or not a number) comes before a
\* numbered one.
ChnoSortOrder ==
  (sort = "chno") =>
    \A n \in UNION {FilesOf(s, written) : s \in {"pluto", "plex", "samsungtvplus"}} :
      LET es == files[n].entries
      IN  \A i \in 1..Len(es), j \in 1..Len(es) :
            i < j =>
              /\ Numbered(es[j]) => Numbered(es[i])
              /\ (Numbered(es[i]) /\ Numbered(es[j])) =>
                   DigitsValue(es[i].extinf.tvg_chno) <= DigitsValue(es[j].extinf.tvg_chno)

---------------------------------------------------------------------------
(* C4 *)

\* The regions object the region driver of service read, and its
\* <<region key, channel key>> pairs.
Catalog(service) == Get(FirstFetch(service).val, "regions", <<>>)

CatalogPairs(service) ==
  UNION {{<<Catalog(service)[i][1], k>> :
            k \in Range(Keys(Get(Catalog(service)[i][2], "channels", <<>>)))} :
         i \in 1..Len(Catalog(service))}

\* The display names of the generated region keys: Pluto's come from its
\* table, Samsung's from the region's own name; kr has neither.
DisplayName(service, region_key) ==
  IF region_key = kr THEN <<"K","R">>
  ELSE IF service = "pluto"
  THEN <<"U","n","i","t","e","d"," ","S","t","a","t","e","s">>
  ELSE <<"U","S","A">>

\* The "all" playlist of service holds one entry per pair of the catalog,
\* with the suffixed id and the region's display name as group-title.
AllFanOut(service) ==
  LET n == FileName(PrefixOf(service), all_)
  IN  n \in written =>
        /\ Len(files[n].entries) = Cardinality(CatalogPairs(service))
        /\ \A p \in CatalogPairs(service) :
             \E i \in 1..Len(files[n].entries) :
               LET e == files[n].entries[i].extinf
               IN  /\ e.channel_id = p[2] \o <<"-">> \o p[1]
                   /\ e.tvg_id = p[2]
                   /\ e.group_title = DisplayName(service, p[1])

\* The playlist of one region holds the channels listed under it, under
\* their own ids.
RegionFanOut(service, region) ==
  LET n == FileName(PrefixOf(service), region)
      keys == Range(Keys(ChannelsUnder(service, region)))
  IN  n \in written =>
        /\ Len(files[n].entries) = Cardinality(keys)
        /\ {files[n].entries[i].extinf.channel_id : i \in 1..Len(files[n].entries)} = keys

\* C4: for Pluto and Samsung, the "all" playlist has exactly one entry per
\* (channel id, region code) pair of the catalog, with channel-id
\* "{id}-{regionCode}" and the region's display name (the upper-cased code for
\* a region without one) as group-title; the playlist of a single region has
\* exactly the channels listed under that region, under their bare ids.
RegionFanOutExact ==
  \A s \in Range(services) \cap {"pluto", "samsungtvplus"} :
    /\ AllFanOut(s)
    /\ \A r \in Range(regions) \ {all_} : RegionFanOut(s, r)

\* A Pluto run over a catalog of two regions: "all" holds an entry of each,
\* one of them of a region without display name, and the playlist of us holds
\* a channel too.
RegionFanOutWitness ==
  /\ services = <<"pluto">> /\ Done
  /\ LET a == FileName(PrefixOf("pluto"), all_)
         u == FileName(PrefixOf("pluto"), us)
     IN  /\ a \in written /\ u \in written
         /\ Len(files[u].entries) >= 1
         /\ \E i, j \in 1..Len(files[a].entries) :
              /\ files[a].entries[i].extinf.channel_id = <<"A","-","u","s">>
              /\ files[a].entries[j].extinf.group_title = <<"K","R">>

---------------------------------------------------------------------------
(* C5 *)

PlexFeed == Get(FirstFetch("plex").val, "channels", <<>>)

\* The Plex channels whose regions list holds region, and the
\* <<channel key, region code>> pairs of the feed.
PlexMembers(region) ==
  {PlexFeed[i][1] : i \in {j \in 1..Len(PlexFeed) :
                            In(region, Get(PlexFeed[j][2], "regions", <<>>))}}

PlexPairs ==
  UNION {{<<PlexFeed[i][1], c>> : c \in Range(Get(PlexFeed[i][2], "regions", <<>>))} :
         i \in 1..Len(PlexFeed)}

\* The first half of C5: the playlist of a region holds a channel exactly
\* when the channel's regions list holds that region.
PlexRegionMembership ==
  \A r \in Range(regions) \ {all_} :
    LET n == FileName(PrefixOf("plex"), r)
    IN  n \in written =>
          /\ {files[n].entries[i].extinf.channel_id : i \in 1..Len(files[n].entries)}
               = PlexMembers(r)
          /\ Len(files[n].entries) = Cardinality(PlexMembers(r))

\* C5, as claimed: the playlist of a region holds exactly the channels whose
\* regions list holds it, and the "all" playlist holds every channel of the
\* feed, also one whose regions list is empty or absent.
PlexAllHoldsEveryChannel ==
  (services = <<"plex">>) =>
    /\ PlexRegionMembership
    /\ LET n == FileName(PrefixOf("plex"), all_)
       IN  n \in written =>
             \A k \in Range(Keys(PlexFeed)) :
               \E i \in 1..Len(files[n].entries) :
                 files[n].entries[i].extinf.tvg_id = k

\* C5, amended: the playlist of a region holds exactly the channels whose
\* regions list holds it, and the "all" playlist holds exactly one entry per
\* channel and region code of its regions list, under the id
\* "{id}-{regionCode}"; a channel whose regions list is empty or absent has
\* no entry in it.
PlexMembershipFanOut ==
  (services = <<"plex">>) =>
    /\ PlexRegionMembership
    /\ LET n == FileName(PrefixOf("plex"), all_)
       IN  n \in written =>
             /\ Len(files[n].entries) = Cardinality(PlexPairs)
             /\ \A p \in PlexPairs :
                  \E i \in 1..Len(files[n].entries) :
                    /\ files[n].entries[i].extinf.channel_id = p[1] \o <<"-">> \o p[2]
                    /\ files[n].entries[i].extinf.tvg_id = p[1]

\* A Plex run over a feed with a channel in two regions and a channel in
\* none: "all" has the two entries of the first and none of the second, and
\* the playlist of us has the first channel only.
PlexMembershipWitness ==
  /\ services = <<"plex">> /\ Done
  /\ LET a == FileName(PrefixOf("plex"), all_)
         u == FileName(PrefixOf("plex"), us)
     IN  /\ a \in written /\ u \in written
         /\ Len(PlexFeed) = 2
         /\ Len(files[a].entries) = 2
         /\ Len(files[u].entries) = 1
         /\ \E i \in 1..2 : Get(PlexFeed[i][2], "regions", <<>>) = <<>>

---------------------------------------------------------------------------
(* C11 *)

\* The top-level key the service's driver reads.
TopLevelKey(service) ==
  IF service \in {"pluto", "samsungtvplus"} THEN "regions" ELSE "channels"

\* The service's feed was fetched and parsed, and the document lacks the key
\* its driver reads.
PartialDocument(service) ==
  /\ service # "tubi"
  /\ FirstFetch(service).ok
  /\ TopLevelKey(service) \notin DOMAIN FirstFetch(service).val

\* What the service's driver does when it is the only one called, on what its
\* own feeds answer (Pluto is the only driver that draws uuids, so none is
\* drawn before it).
DriverAlone(service) ==
  CASE service = "pluto" ->
         generate_pluto_m3u(FirstFetch("pluto"), regions, sort, 0)
    [] service = "plex" ->
         generate_plex_m3u(FirstFetch("plex"),
                           fetch_url(net[CHANNELS_JSON_URL][1], TRUE, FALSE, FALSE),
                           regions, sort)
    [] service = "samsungtvplus" ->
         generate_samsungtvplus_m3u(FirstFetch("samsungtvplus"), regions, sort)
    [] service = "stirr" -> generate_stirr_m3u(FirstFetch("stirr"))
    [] service = "tubi" -> generate_tubi_m3u(FirstFetch("tubi"))
    [] service = "roku" -> generate_roku_m3u(FirstFetch("roku"))

\* The service's driver did in this run exactly what it does alone: it raised
\* or not, it wrote the same files, with the same contents.
Unaffected(service) ==
  LET out == DriverAlone(service)
  IN  /\ (service \in raised) <=> out.raised
      /\ FilesOf(service, written) = {out.writes[i][1] : i \in 1..Len(out.writes)}
      /\ \A i \in 1..Len(out.writes) : files[out.writes[i][1]] = out.writes[i][2]

\* C11: when a service's fetched document parses but lacks the top-level key
\* its driver reads ("regions" for Pluto and Samsung, "channels" for Plex,
\* Stirr and Roku), that driver returns without raising and writes no file of
\* that service, whatever the regions asked for; every other driver called
\* does what it does on its own feed, and every driver is called.
PartialDocumentSkip ==
  /\ Done => invoked = services
  /\ \A s \in Range(invoked) :
       PartialDocument(s) =>
         /\ s \notin raised
         /\ FilesOf(s, written) = {}
         /\ \A t \in Range(invoked) \ {s} : Unaffected(t)

\* A whole run over an output directory with older files, in which Pluto's
\* document has "channels" but no "regions" and Roku's has only an "error"
\* key: neither raised nor wrote a file, while Plex and Stirr wrote theirs.
PartialDocumentWitness ==
  /\ Done
  /\ dirExists /\ DOMAIN files # written
  /\ PartialDocument("pluto") /\ "channels" \in DOMAIN FirstFetch("pluto").val
  /\ PartialDocument("roku") /\ FirstFetch("roku").val = PartialDoc
  /\ {"pluto", "roku"} \cap raised = {}
  /\ FilesOf("pluto", written) \cup FilesOf("roku", written) = {}
  /\ FileName(PrefixOf("plex"), all_) \in written
  /\ FileName(PrefixOf("stirr"), all_) \in written

=============================================================================
